---- MODULE Spec2Model ----
(***************************************************************************)
(* The segregated-free-list allocator of src/mm.c (mm_init, mm_malloc,     *)
(* mm_free, mm_realloc) over the heap handed out by memlib's mem_sbrk.     *)
(*                                                                         *)
(* Memory is an array of words indexed by (byte address \div WSIZE); all   *)
(* the allocator's own accesses are word accesses (GET / PUT and the two   *)
(* pointer fields of struct block_list).  Byte granularity is kept where   *)
(* the code has it: the caller's stores and memcpy move byte counts, and   *)
(* the last, partial word is merged byte-wise (little endian).             *)
(*                                                                         *)
(* size_t values are kept at their width: a size_t is a little-endian      *)
(* sequence of NDIG digits in base 2^16 (2 digits in the 32-bit build, 4   *)
(* in the 64-bit build) and every size_t operation is taken modulo 2^w.    *)
(* Words stored in the heap (sizes, allocated bits, list links, caller     *)
(* data) stay below 2^30 and are plain integers.                           *)
(***************************************************************************)
EXTENDS Integers, Sequences, FiniteSets, TLC

VARIABLES
    wsize,        \* the build's pointer size in bytes: 4 or 8
    profile,      \* the request sizes the caller of this run uses
    mem,          \* the heap words, word index -> value
    mem_brk,      \* memlib: first byte address past the heap
    seg_first,    \* global: address of the size-class sentinel table
    heap_listp,   \* global: address of the prologue block
    live,         \* the caller's live blocks, see Block
    last,         \* the last call: [op, ptr, size, ret, sbrk]
    status,       \* "uninit" | "ready" | "init_failed" | "crashed" | "hung"
    nops          \* number of calls made so far

vars == <<wsize, profile, mem, mem_brk, seg_first, heap_listp, live, last,
          status, nops>>

(***************************************************************************)
(* Bounds of the model.                                                    *)
(***************************************************************************)
\* Calls explored after mm_init.
MaxOps == 4
\* memlib refuses to grow the heap beyond this many bytes above its base.
MaxHeap == 8800
\* The caller stores its pattern in at most this many leading bytes.
FillMax == 12
\* seg_index is applied to the sizes within this distance of a class limit.
SegSpread == 2

(***************************************************************************)
(* Program constants.                                                      *)
(***************************************************************************)
NULL == 0
WSIZE == wsize
DSIZE == 2 * WSIZE
ALIGN_SIZE == 8
SEGSIZE == 10
CHUNKSIZE == 4096
\* memlib: address of the first heap byte (a multiple of 16).
mem_heap == 64

(***************************************************************************)
(* size_t arithmetic, modulo 2^w.                                          *)
(***************************************************************************)
B == 2 ^ 16
NDIG == WSIZE \div 2

\* The size_t with value n, 0 <= n < 2^31.
SZ(n) == [i \in 1..NDIG |-> IF i = 1 THEN n % B ELSE IF i = 2 THEN n \div B ELSE 0]

\* SIZE_MAX - k, 0 <= k < 2^16.
SZ_MAX_MINUS(k) == [i \in 1..NDIG |-> IF i = 1 THEN B - 1 - k ELSE B - 1]

\* 2^(w-1) + k, 0 <= k < 2^16.
SZ_HALF_PLUS(k) == [i \in 1..NDIG |-> IF i = 1 THEN k ELSE IF i = NDIG THEN B \div 2 ELSE 0]

\* Whether the size_t is below 2^30, and then its value.
Fits(a) == a[2] < 16384 /\ \A i \in 3..NDIG : a[i] = 0
ToInt(a) == a[1] + B * a[2]

RECURSIVE AddC(_, _, _)
AddC(a, i, c) ==
    IF i > NDIG THEN a
    ELSE LET s == a[i] + c
         IN AddC([a EXCEPT ![i] = s % B], i + 1, s \div B)
\* a + c and a - c, c a small constant.
SzAdd(a, c) == AddC(a, 1, c)
SzSub(a, c) == AddC(a, 1, 0 - c)

RECURSIVE MulC(_, _, _, _)
MulC(a, i, c, carry) ==
    IF i > NDIG THEN a
    ELSE LET s == a[i] * c + carry
         IN MulC([a EXCEPT ![i] = s % B], i + 1, c, s \div B)
\* a * c, c a small constant.
SzMul(a, c) == MulC(a, 1, c, 0)

RECURSIVE DivC(_, _, _, _)
DivC(a, i, c, rem) ==
    IF i < 1 THEN [q |-> a, r |-> rem]
    ELSE LET cur == rem * B + a[i]
         IN DivC([a EXCEPT ![i] = cur \div c], i - 1, c, cur % c)
\* a / c and a % c, c a small constant.
SzDiv(a, c) == DivC(a, NDIG, c, 0).q
SzMod(a, c) == DivC(a, NDIG, c, 0).r

RECURSIVE LtC(_, _, _)
LtC(a, b, i) ==
    IF i < 1 THEN FALSE
    ELSE IF a[i] # b[i] THEN a[i] < b[i]
    ELSE LtC(a, b, i - 1)
SzLt(a, b) == LtC(a, b, NDIG)
SzLe(a, b) == ~SzLt(b, a)

\* #define MAX(x, y)  ((x) > (y) ? (x) : (y))
MAX(x, y) == IF SzLt(y, x) THEN x ELSE y

(***************************************************************************)
(* Bit operations on the integers stored in words.                        *)
(***************************************************************************)
RECURSIVE BitOr(_, _)
BitOr(a, b) ==
    IF a < 0 \/ b < 0 THEN a + b
    ELSE IF a = 0 THEN b
    ELSE IF b = 0 THEN a
    ELSE (IF a % 2 = 1 \/ b % 2 = 1 THEN 1 ELSE 0) + 2 * BitOr(a \div 2, b \div 2)

\* n >> k
Shr(n, k) == n \div (2 ^ k)

\* next_power_of_2: called only with 1 <= n <= 16 * DSIZE.
next_power_of_2(n) ==
    LET n0 == n - 1
        n1 == BitOr(n0, Shr(n0, 1))
        n2 == BitOr(n1, Shr(n1, 2))
        n3 == BitOr(n2, Shr(n2, 4))
        n4 == BitOr(n3, Shr(n3, 8))
        n5 == BitOr(n4, Shr(n4, 16))
    IN  n5 + 1

(***************************************************************************)
(* The heap: h = [m, brk, seg_first, heap_listp, segv, ovl].  An access outside *)
(* [mem_heap, brk), or not word aligned, ends the program (segv).          *)
(***************************************************************************)
Valid(h, p) == p % WSIZE = 0 /\ p >= mem_heap /\ p < h.brk

\* What a read outside the heap yields; the reader's Touch ends the program.
Unmapped == 0 - 1048576 * WSIZE

Segv(h) == [h EXCEPT !.segv = TRUE]
Touch(h, ps) == IF \A p \in ps : Valid(h, p) THEN h ELSE Segv(h)

\* #define GET(p), PUT(p, val)
GET(h, p) == IF Valid(h, p) THEN h.m[p \div WSIZE] ELSE Unmapped
PUT(h, p, val) ==
    IF Valid(h, p) THEN [h EXCEPT !.m[p \div WSIZE] = val] ELSE Segv(h)

\* #define PACK(size, alloc)  ((size) | (alloc))
PACK(size, alloc) == BitOr(size, alloc)

\* #define GET_SIZE(p)  (GET(p) & ~(ALIGN_SIZE - 1)),  GET_ALLOC(p)  (GET(p) & 0x1)
GET_SIZE(h, p) == GET(h, p) - (GET(h, p) % ALIGN_SIZE)
GET_ALLOC(h, p) == GET(h, p) % 2

HDRP(bp) == bp - WSIZE
FTRP(h, bp) == bp + GET_SIZE(h, HDRP(bp)) - DSIZE
NEXT_BLKP(h, bp) == bp + GET_SIZE(h, bp - WSIZE)
PREV_BLKP(h, bp) == bp - GET_SIZE(h, bp - DSIZE)

\* struct block_list { next_list; prev_list; }: the addresses of the fields.
next_list(bp) == bp
prev_list(bp) == bp + WSIZE

(***************************************************************************)
(* memlib (not part of src/): mem_sbrk grows the heap by incr bytes and    *)
(* returns the old break, or fails (SBRK_FAIL) when the system has no      *)
(* memory to give (avail = FALSE) or the heap would pass MaxHeap.  The     *)
(* heap lives in one array of MaxHeap bytes that holds Junk at the start.  *)
(***************************************************************************)
Junk == 0
SBRK_FAIL == 0 - 1

mem_sbrk(h, incr, avail) ==
    IF ~avail \/ ~Fits(incr) \/ h.brk + ToInt(incr) > mem_heap + MaxHeap
    THEN [h |-> h, p |-> SBRK_FAIL]
    ELSE [h |-> [h EXCEPT !.brk = h.brk + ToInt(incr)], p |-> h.brk]

(***************************************************************************)
(* Segregated free lists.                                                  *)
(***************************************************************************)
\* A variant whose second threshold is exclusive.
seg_index_excl(size) ==
    IF SzLe(size, SZ(32)) THEN 0
    ELSE IF SzLt(size, SZ(64)) THEN 1
    ELSE IF SzLe(size, SZ(128)) THEN 2
    ELSE IF SzLe(size, SZ(256)) THEN 3
    ELSE IF SzLe(size, SZ(512)) THEN 4
    ELSE IF SzLe(size, SZ(1024)) THEN 5
    ELSE IF SzLe(size, SZ(2048)) THEN 6
    ELSE IF SzLe(size, SZ(4096)) THEN 7
    ELSE IF SzLe(size, SZ(8192)) THEN 8
    ELSE 9

seg_index(size) ==
    IF SzLe(size, SZ(32)) THEN 0
    ELSE IF SzLe(size, SZ(64)) THEN 1
    ELSE IF SzLe(size, SZ(128)) THEN 2
    ELSE IF SzLe(size, SZ(256)) THEN 3
    ELSE IF SzLe(size, SZ(512)) THEN 4
    ELSE IF SzLe(size, SZ(1024)) THEN 5
    ELSE IF SzLe(size, SZ(2048)) THEN 6
    ELSE IF SzLe(size, SZ(4096)) THEN 7
    ELSE IF SzLe(size, SZ(8192)) THEN 8
    ELSE 9

\* &seg_first[i]
seg_head(h, i) == h.seg_first + i * DSIZE

\* The four stores of list_insert, new_after being start->next_list.
list_link(h, bp, start, new_after) ==
    PUT(PUT(PUT(PUT(h, prev_list(bp), start),
                next_list(bp), new_after),
            prev_list(new_after), bp),
        next_list(start), bp)

list_insert_at(h, bp, start) ==
    list_link(Touch(h, {next_list(start)}), bp, start, GET(h, next_list(start)))

list_insert(h, bp, size) == list_insert_at(h, bp, seg_head(h, seg_index(SZ(size))))

\* The two stores of list_remove.
list_unlink(h, new_prev, new_next) ==
    PUT(PUT(h, next_list(new_prev), new_next), prev_list(new_next), new_prev)

list_remove(h, bp) ==
    list_unlink(Touch(h, {prev_list(bp), next_list(bp)}),
                GET(h, prev_list(bp)), GET(h, next_list(bp)))

(***************************************************************************)
(* Stores through the block macros, each reading the heap it is given.     *)
(***************************************************************************)
\* PUT(HDRP(bp), val)
SetHdr(h, bp, val) == PUT(h, HDRP(bp), val)
\* PUT(FTRP(bp), val)
SetFtr(h, bp, val) == PUT(Touch(h, {HDRP(bp)}), FTRP(h, bp), val)
\* PUT(HDRP(PREV_BLKP(bp)), val)
SetPrevHdr(h, bp, val) == PUT(Touch(h, {bp - DSIZE}), HDRP(PREV_BLKP(h, bp)), val)
\* PUT(FTRP(NEXT_BLKP(bp)), val)
SetNextFtr(h, bp, val) ==
    PUT(Touch(h, {HDRP(bp), HDRP(NEXT_BLKP(h, bp))}), FTRP(h, NEXT_BLKP(h, bp)), val)
\* PUT(HDRP(NEXT_BLKP(bp)), PACK(0, 1))
SetEpilogue(h, bp) == PUT(Touch(h, {HDRP(bp)}), HDRP(NEXT_BLKP(h, bp)), PACK(0, 1))
\* list_remove((struct block_list *)PREV_BLKP(bp)), ... NEXT_BLKP(bp)
RemovePrev(h, bp) == list_remove(Touch(h, {bp - DSIZE}), PREV_BLKP(h, bp))
RemoveNext(h, bp) == list_remove(Touch(h, {HDRP(bp)}), NEXT_BLKP(h, bp))

(***************************************************************************)
(* coalesce: boundary-tag coalescing of the newly freed block bp.  The     *)
(* result is [h, bp]: the heap and the address of the coalesced block.     *)
(***************************************************************************)
\* Case 2: size already includes the next block.
coalesce_next(h, bp, size) ==
    [h |-> list_insert(SetFtr(SetHdr(RemoveNext(h, bp), bp, PACK(size, 0)),
                              bp, PACK(size, 0)),
                       bp, size),
     bp |-> bp]

\* bp = PREV_BLKP(bp); list_insert(bp, size)
coalesce_at_prev(h, bp, size) ==
    [h |-> list_insert(Touch(h, {bp - DSIZE}), PREV_BLKP(h, bp), size),
     bp |-> PREV_BLKP(h, bp)]

\* Case 3: size already includes the previous block.
coalesce_prev(h, bp, size) ==
    coalesce_at_prev(SetPrevHdr(SetFtr(RemovePrev(h, bp), bp, PACK(size, 0)),
                                bp, PACK(size, 0)),
                     bp, size)

\* Case 4: size already includes both neighbours.
coalesce_both(h, bp, size) ==
    coalesce_at_prev(SetNextFtr(SetPrevHdr(RemoveNext(RemovePrev(h, bp), bp),
                                           bp, PACK(size, 0)),
                                bp, PACK(size, 0)),
                     bp, size)

coalesce_case(h, bp, size, prev_alloc, next_alloc) ==
    IF prev_alloc /\ next_alloc THEN
        [h |-> list_insert(h, bp, size), bp |-> bp]
    ELSE IF prev_alloc /\ ~next_alloc THEN
        coalesce_next(h, bp, size + GET_SIZE(h, HDRP(NEXT_BLKP(h, bp))))
    ELSE IF ~prev_alloc /\ next_alloc THEN
        coalesce_prev(h, bp, size + GET_SIZE(h, HDRP(PREV_BLKP(h, bp))))
    ELSE
        coalesce_both(Touch(h, {FTRP(h, NEXT_BLKP(h, bp))}), bp,
                      size + GET_SIZE(h, HDRP(PREV_BLKP(h, bp)))
                           + GET_SIZE(h, FTRP(h, NEXT_BLKP(h, bp))))

coalesce(h, bp) ==
    coalesce_case(Touch(h, {HDRP(bp), bp - DSIZE, HDRP(PREV_BLKP(h, bp)),
                            FTRP(h, PREV_BLKP(h, bp)), HDRP(NEXT_BLKP(h, bp))}),
                  bp,
                  GET_SIZE(h, HDRP(bp)),
                  GET_ALLOC(h, FTRP(h, PREV_BLKP(h, bp))) # 0,
                  GET_ALLOC(h, HDRP(NEXT_BLKP(h, bp))) # 0)

(***************************************************************************)
(* extend_heap.  words is a size_t; the result is [h, bp], bp = NULL when  *)
(* mem_sbrk fails.                                                         *)
(***************************************************************************)
\* Allocate an even number of words to maintain alignment.
extend_size(words) ==
    IF SzMod(words, 2) # 0 THEN SzMul(SzAdd(words, 1), WSIZE)
    ELSE SzMul(words, WSIZE)

\* s is mem_sbrk's answer [h, p] to the request for size bytes.
extend_with(s, size) ==
    IF s.p = SBRK_FAIL THEN [h |-> s.h, bp |-> NULL]
    ELSE coalesce(SetEpilogue(SetFtr(SetHdr(s.h, s.p, PACK(ToInt(size), 0)),
                                     s.p, PACK(ToInt(size), 0)),
                              s.p),
                  s.p)

extend_heap(h, words, avail) ==
    extend_with(mem_sbrk(h, extend_size(words), avail), extend_size(words))

(***************************************************************************)
(* find_fit.  The result is [bp, st]: st is "ok" (bp is the fit, or NULL   *)
(* when there is none), "segv" (the walk left the heap) or "hang" (the     *)
(* walk comes back to a block it has passed, and so never ends).           *)
(***************************************************************************)
RECURSIVE scan_list(_, _, _, _, _)
scan_list(h, i, bp, asize, seen) ==
    IF bp = NULL \/ bp = seg_head(h, i) THEN [bp |-> NULL, st |-> "ok"]
    ELSE IF ~Valid(h, HDRP(bp)) THEN [bp |-> NULL, st |-> "segv"]
    ELSE IF SzLe(asize, SZ(GET_SIZE(h, HDRP(bp)))) THEN [bp |-> bp, st |-> "ok"]
    ELSE IF ~Valid(h, next_list(bp)) THEN [bp |-> NULL, st |-> "segv"]
    ELSE IF bp \in seen THEN [bp |-> NULL, st |-> "hang"]
    ELSE scan_list(h, i, GET(h, next_list(bp)), asize, seen \cup {bp})

RECURSIVE scan_classes(_, _, _)
scan_next(h, i, asize, r) ==
    IF r.st # "ok" \/ r.bp # NULL THEN r ELSE scan_classes(h, i + 1, asize)

scan_classes(h, i, asize) ==
    IF i >= SEGSIZE THEN [bp |-> NULL, st |-> "ok"]
    ELSE scan_next(h, i, asize,
                   scan_list(h, i, GET(h, next_list(seg_head(h, i))), asize, {}))

\* asize is a size_t.
find_fit(h, asize) == scan_classes(h, seg_index(asize), asize)

(***************************************************************************)
(* place.  asize is below 2^30 here: a fit, or the new block, is at least  *)
(* asize bytes.                                                            *)
(***************************************************************************)
\* The remainder of the split, nbp = NEXT_BLKP(bp).
place_rest(h, nbp, rest) ==
    list_insert(SetFtr(SetHdr(h, nbp, PACK(rest, 0)), nbp, PACK(rest, 0)), nbp, rest)

place_split(h, bp, rest) == place_rest(Touch(h, {HDRP(bp)}), NEXT_BLKP(h, bp), rest)

\* Whether place splits: (csize - asize) >= (2 * DSIZE), in size_t arithmetic.
place_splits(csize, asize) == csize - asize >= 2 * DSIZE \/ csize < asize

\* h is the heap after list_remove(bp), csize the size of the free block.
place_in(h, bp, asize, csize) ==
    IF place_splits(csize, asize) THEN
        place_split(SetFtr(SetHdr(h, bp, PACK(asize, 1)), bp, PACK(asize, 1)),
                    bp, csize - asize)
    ELSE
        SetFtr(SetHdr(h, bp, PACK(csize, 1)), bp, PACK(csize, 1))

place(h, bp, asize) ==
    place_in(list_remove(Touch(h, {HDRP(bp)}), bp), bp, asize, GET_SIZE(h, HDRP(bp)))

(***************************************************************************)
(* Byte moves: the caller's stores and memcpy.  Words hold values below    *)
(* 2^31, so bytes 4..7 of a 64-bit word are zero.                          *)
(***************************************************************************)
\* The low k bytes of word src over the high bytes of word dst.
MergeBytes(src, dst, k) ==
    IF k >= 4 THEN src
    ELSE (src % (256 ^ k)) + (dst \div (256 ^ k)) * (256 ^ k)

\* The n bytes at [a, a + n) are inside the heap.
ValidRange(h, a, n) ==
    n = 0 \/ (a % WSIZE = 0 /\ a >= mem_heap /\ a + n <= h.brk)

\* The source words are read as they were before the call: what a copy
\* gives when the ranges are disjoint, or when it runs away from the overlap.
copied_word(h, dst, src, n, i, off) ==
    IF off < 0 \/ off >= n THEN h.m[i]
    ELSE IF n - off >= WSIZE THEN h.m[(src + off) \div WSIZE]
    ELSE MergeBytes(h.m[(src + off) \div WSIZE], h.m[i], n - off)

\* The offset of the source word that ends up at offset off when the copy
\* runs into the overlap and reads words it has already written: upwards
\* with dst = src + d, downwards from the last word with dst = src - d.
replicated(dst, src, n, off) ==
    IF dst > src THEN off % (dst - src)
    ELSE off + (src - dst) * ((((n - 1) \div WSIZE) * WSIZE - off) \div (src - dst))

\* [dst, dst + n) and [src, src + n) overlap.
overlap(dst, src, n) == dst # src /\ dst < src + n /\ src < dst + n

\* memcpy(dst, src, n), n below 2^30.  With overlapping ranges the result is
\* undefined: seq chooses between the two copies above, and ovl records that
\* there was a choice.
memcpy(h, dst, src, n, seq) ==
    IF ~ValidRange(h, dst, n) \/ ~ValidRange(h, src, n) THEN Segv(h)
    ELSE [h EXCEPT
            !.ovl = overlap(dst, src, n),
            !.m = [i \in DOMAIN h.m |->
                     copied_word(h, dst,
                                 IF seq /\ overlap(dst, src, n)
                                    /\ i * WSIZE >= dst /\ i * WSIZE < dst + n
                                 THEN src - (i * WSIZE - dst)
                                      + replicated(dst, src, n, i * WSIZE - dst)
                                 ELSE src,
                                 n, i, i * WSIZE - dst)]]

\* The word the caller stores at address a.
Pattern(a) == 70000 + a

RECURSIVE store_words(_, _, _)
store_words(h, a, k) ==
    IF k = 0 \/ h.segv THEN h
    ELSE store_words(PUT(h, a, Pattern(a)), a + WSIZE, k - 1)

store_tail(h, a, part) ==
    IF part = 0 THEN h
    ELSE PUT(h, a, MergeBytes(Pattern(a), GET(h, a), part))

\* The caller stores its pattern in the first n bytes at p.
Store(h, p, n) ==
    IF ~ValidRange(h, p, n) THEN Segv(h)
    ELSE store_tail(store_words(h, p, n \div WSIZE), p + WSIZE * (n \div WSIZE), n % WSIZE)

(***************************************************************************)
(* mm_init.  grants is the number of mem_sbrk calls memlib satisfies; the  *)
(* result is [h, ret].                                                     *)
(***************************************************************************)
RECURSIVE init_seg(_, _)
init_seg(h, i) ==
    IF i >= SEGSIZE THEN h
    ELSE init_seg(PUT(PUT(h, next_list(seg_head(h, i)), seg_head(h, i)),
                      prev_list(seg_head(h, i)), seg_head(h, i)),
                  i + 1)

\* The padding word, the prologue and the epilogue; heap_listp += 2 * WSIZE.
init_prologue(h) ==
    [PUT(PUT(PUT(PUT(h, h.heap_listp, 0),
                 h.heap_listp + (1 * WSIZE), PACK(DSIZE, 1)),
             h.heap_listp + (2 * WSIZE), PACK(DSIZE, 1)),
         h.heap_listp + (3 * WSIZE), PACK(0, 1))
     EXCEPT !.heap_listp = h.heap_listp + 2 * WSIZE]

init_extend(e) ==
    IF e.bp = NULL THEN [h |-> e.h, ret |-> 0 - 1] ELSE [h |-> e.h, ret |-> 0]

\* s is mem_sbrk's answer to the request for the four words.
init_heap(s, grants) ==
    IF s.p = SBRK_FAIL THEN [h |-> [s.h EXCEPT !.heap_listp = s.p], ret |-> 0 - 1]
    ELSE init_extend(extend_heap(init_prologue([s.h EXCEPT !.heap_listp = s.p]),
                                 SzDiv(SZ(CHUNKSIZE), WSIZE), grants >= 3))

\* s is mem_sbrk's answer to the request for the sentinel table.
init_table(s, grants) ==
    IF s.p = SBRK_FAIL THEN [h |-> [s.h EXCEPT !.seg_first = s.p], ret |-> 0 - 1]
    ELSE init_heap(mem_sbrk(init_seg([s.h EXCEPT !.seg_first = s.p], 0),
                            SZ(4 * WSIZE), grants >= 2),
                   grants)

mm_init(h, grants) ==
    init_table(mem_sbrk(h, SZ(2 * SEGSIZE * WSIZE), grants >= 1), grants)

(***************************************************************************)
(* mm_malloc, mm_free, mm_realloc.  A result is [h, ret, sbrk, st]: the    *)
(* heap, the returned address, what mem_sbrk answered ("none" when it was  *)
(* not called, "ok", "refused") and st = "hang" when the call never        *)
(* returns.                                                                *)
(***************************************************************************)
Result(h, ret, sbrk) == [h |-> h, ret |-> ret, sbrk |-> sbrk, st |-> "ok"]

\* Make sure size is large enough, avoid fragmentation.
malloc_round(size) ==
    IF SzLe(size, SZ(16 * DSIZE)) THEN SZ(next_power_of_2(ToInt(size))) ELSE size

\* Adjust block size to include overhead and alignment reqs.
adjust_size(size) ==
    IF SzLe(size, SZ(DSIZE)) THEN SZ(2 * DSIZE)
    ELSE SzMul(SzDiv(SzAdd(size, DSIZE + (ALIGN_SIZE - 1)), ALIGN_SIZE), ALIGN_SIZE)

\* The adjusted block size asize of mm_malloc(size).
malloc_asize(size) == adjust_size(malloc_round(size))

\* No fit found: e is extend_heap's answer.
malloc_extend(h, asize, e) ==
    IF e.bp = NULL THEN Result(e.h, NULL, "refused")
    ELSE IF ~Fits(asize) THEN Result(Segv(e.h), NULL, "ok")
    ELSE Result(place(e.h, e.bp, ToInt(asize)), e.bp, "ok")

\* f is find_fit's answer.
malloc_found(h, asize, f, avail) ==
    IF f.st = "segv" THEN Result(Segv(h), NULL, "none")
    ELSE IF f.st = "hang" THEN [h |-> h, ret |-> NULL, sbrk |-> "none", st |-> "hang"]
    ELSE IF f.bp # NULL THEN Result(place(h, f.bp, ToInt(asize)), f.bp, "none")
    ELSE malloc_extend(h, asize,
                       extend_heap(h, SzDiv(MAX(asize, SZ(CHUNKSIZE)), WSIZE), avail))

malloc_block(h, asize, avail) == malloc_found(h, asize, find_fit(h, asize), avail)

mm_malloc(h, size, avail) ==
    IF size = SZ(0) THEN Result(h, NULL, "none")
    ELSE malloc_block(h, malloc_asize(size), avail)

free_block(h, bp, size) ==
    coalesce(SetFtr(SetHdr(h, bp, PACK(size, 0)), bp, PACK(size, 0)), bp).h

mm_free(h, bp) ==
    IF bp = NULL THEN h
    ELSE free_block(Touch(h, {HDRP(bp)}), bp, GET_SIZE(h, HDRP(bp)))

\* The adjusted block size asize of mm_realloc(ptr, size).
realloc_asize(size) == adjust_size(size)

\* A variant that compares asize with the payload size alone.
realloc_in_place_payload(asize, oldsize) == SzLt(asize, oldsize)

\* Whether mm_realloc returns ptr itself: asize < oldsize + DSIZE.
realloc_in_place(asize, oldsize) == SzLt(asize, SzAdd(oldsize, DSIZE))

\* The size mm_realloc asks mm_malloc for.
realloc_request(size) == SzMul(size, SEGSIZE)

\* A variant that frees the old block also when mm_malloc returned NULL.
realloc_move_frees(ptr, oldsize, r, seq) ==
    IF r.st # "ok" \/ r.h.segv THEN r
    ELSE IF r.ret = NULL THEN [r EXCEPT !.h = mm_free(r.h, ptr)]
    ELSE IF ~Fits(oldsize) THEN [r EXCEPT !.h = Segv(r.h)]
    ELSE [r EXCEPT !.h = mm_free(memcpy(r.h, r.ret, ptr, ToInt(oldsize), seq), ptr)]

\* r is the answer of mm_malloc(SEGSIZE * size); oldsize the bytes to copy.
realloc_move(ptr, oldsize, r, seq) ==
    IF r.st # "ok" \/ r.h.segv \/ r.ret = NULL THEN r
    ELSE IF ~Fits(oldsize) THEN [r EXCEPT !.h = Segv(r.h)]
    ELSE [r EXCEPT !.h = mm_free(memcpy(r.h, r.ret, ptr, ToInt(oldsize), seq), ptr)]

\* A variant that trims a block it keeps: the surplus beyond asize is split
\* off and put in a free list.
realloc_block_trims(h, ptr, size, asize, oldsize, avail, seq) ==
    IF realloc_in_place(asize, oldsize)
    THEN Result(place_in(h, ptr, ToInt(asize), GET_SIZE(h, HDRP(ptr))), ptr, "none")
    ELSE realloc_move(ptr, IF SzLt(size, oldsize) THEN size ELSE oldsize,
                      mm_malloc(h, realloc_request(size), avail), seq)

\* oldsize = GET_SIZE(HDRP(ptr)) - DSIZE, a size_t.
realloc_block(h, ptr, size, asize, oldsize, avail, seq) ==
    IF realloc_in_place(asize, oldsize) THEN Result(h, ptr, "none")
    ELSE realloc_move(ptr, IF SzLt(size, oldsize) THEN size ELSE oldsize,
                      mm_malloc(h, realloc_request(size), avail), seq)

\* A variant that returns NULL for size 0 without freeing the block.
mm_realloc_keeps(h, ptr, size, avail, seq) ==
    IF size = SZ(0) THEN Result(h, NULL, "none")
    ELSE IF ptr = NULL THEN mm_malloc(h, size, avail)
    ELSE realloc_block(Touch(h, {HDRP(ptr)}), ptr, size, realloc_asize(size),
                       SzSub(SZ(GET_SIZE(h, HDRP(ptr))), DSIZE), avail, seq)

mm_realloc(h, ptr, size, avail, seq) ==
    IF size = SZ(0) THEN Result(mm_free(h, ptr), NULL, "none")
    ELSE IF ptr = NULL THEN mm_malloc(h, size, avail)
    ELSE realloc_block(Touch(h, {HDRP(ptr)}), ptr, size, realloc_asize(size),
                       SzSub(SZ(GET_SIZE(h, HDRP(ptr))), DSIZE), avail, seq)

(***************************************************************************)
(* The caller.  A run is one build (wsize) and one profile of request      *)
(* sizes; the caller stores its pattern in a block as soon as it gets it.  *)
(***************************************************************************)
\* The request that makes size + DSIZE + (ALIGN_SIZE - 1) wrap around to 0.
SZ_WRAP0 == SZ_MAX_MINUS(DSIZE + ALIGN_SIZE - 2)

Profiles ==
    { {SZ(1), SZ(264)},
      {SZ(50), SZ(100), SZ(200)},
      {SZ(24), SZ(CHUNKSIZE)},
      {SZ(24), SZ_MAX_MINUS(0)},
      {SZ(24), SZ_WRAP0},
      {SZ(24), SZ(264), SZ_HALF_PLUS(1)},
      {SZ(24), SZ(CHUNKSIZE + ALIGN_SIZE)} }

H == [m |-> mem, brk |-> mem_brk, seg_first |-> seg_first,
      heap_listp |-> heap_listp, segv |-> FALSE, ovl |-> FALSE]

\* Payload capacity of the block at p: its header size minus DSIZE.
Capacity(h, p) == GET_SIZE(h, HDRP(p)) - DSIZE

Min(a, b) == IF a < b THEN a ELSE b

\* How many bytes the caller stores in a block it asked n bytes for.
FillBytes(h, p, n) ==
    IF Capacity(h, p) < 0 THEN 0
    ELSE Min(IF Fits(n) THEN Min(ToInt(n), FillMax) ELSE FillMax, Capacity(h, p))

\* A live block of the caller: its address p, the size n last asked for it,
\* the size req that was passed to the mm_malloc call that returned it, and
\* the data the caller expects in it: the pattern of the fill bytes at src.
Block(p, n, req, src, fill) == [p |-> p, n |-> n, req |-> req, src |-> src, fill |-> fill]

\* The caller's argument when it passes no block.
NoBlock == Block(NULL, SZ(0), SZ(0), NULL, 0)

\* Whether memlib's answer matters to mm_malloc(size): no fit in the lists.
Avails(h, size) ==
    IF size # SZ(0) /\ find_fit(h, malloc_asize(size)).bp = NULL THEN BOOLEAN ELSE {TRUE}

\* The call returned an address.
Done(r) == r.st = "ok" /\ ~r.h.segv /\ r.ret # NULL

\* The heap the call leaves.  After a segv ("crashed") or in a call that
\* never returns ("hung") the program is over, and its memory is left as is.
Leave(h, st) ==
    IF h.segv \/ st = "hang"
    THEN /\ status' = (IF h.segv THEN "crashed" ELSE "hung")
         /\ UNCHANGED <<mem, mem_brk, seg_first, heap_listp>>
    ELSE /\ status' = "ready"
         /\ mem' = h.m
         /\ mem_brk' = h.brk
         /\ seg_first' = h.seg_first
         /\ heap_listp' = h.heap_listp

Called(op, ptr, size, r) ==
    [op |-> op, ptr |-> ptr, size |-> size, ret |-> r.ret, sbrk |-> r.sbrk]

Init ==
    /\ wsize \in {4, 8}
    /\ profile \in Profiles
    /\ mem = [i \in (mem_heap \div WSIZE)..(((mem_heap + MaxHeap) \div WSIZE) - 1) |-> Junk]
    /\ mem_brk = mem_heap
    /\ seg_first = NULL
    /\ heap_listp = NULL
    /\ live = {}
    /\ last = [op |-> "none", ptr |-> NULL, size |-> SZ(0), ret |-> NULL, sbrk |-> "none"]
    /\ status = "uninit"
    /\ nops = 0

InitReturn(r) ==
    /\ mem' = r.h.m
    /\ mem_brk' = r.h.brk
    /\ seg_first' = r.h.seg_first
    /\ heap_listp' = r.h.heap_listp
    /\ status' = IF r.h.segv THEN "crashed"
                 ELSE IF r.ret = 0 THEN "ready" ELSE "init_failed"
    /\ last' = [op |-> "init", ptr |-> NULL, size |-> SZ(0), ret |-> r.ret,
                sbrk |-> IF r.ret = 0 THEN "ok" ELSE "refused"]

MmInit ==
    /\ status = "uninit"
    /\ \E grants \in 0..3 : InitReturn(mm_init(H, grants))
    /\ UNCHANGED <<wsize, profile, live, nops>>

\* mm_malloc(n) returned r; on success the caller fills the block.
MallocReturn(n, r) ==
    /\ Leave(IF Done(r) THEN Store(r.h, r.ret, FillBytes(r.h, r.ret, n)) ELSE r.h, r.st)
    /\ live' = IF Done(r)
               THEN live \cup {Block(r.ret, n, n, r.ret, FillBytes(r.h, r.ret, n))}
               ELSE live
    /\ last' = Called("malloc", NULL, n, r)

MmMalloc ==
    /\ status = "ready"
    /\ nops < MaxOps
    /\ \E n \in profile \cup {SZ(0)} : \E avail \in Avails(H, n) :
          MallocReturn(n, mm_malloc(H, n, avail))
    /\ nops' = nops + 1
    /\ UNCHANGED <<wsize, profile>>

MmFree ==
    /\ status = "ready"
    /\ nops < MaxOps
    /\ \E l \in live \cup {NoBlock} :
        /\ Leave(mm_free(H, l.p), "ok")
        /\ live' = {k \in live : k.p # l.p}
        /\ last' = [op |-> "free", ptr |-> l.p, size |-> SZ(0), ret |-> NULL,
                    sbrk |-> "none"]
    /\ nops' = nops + 1
    /\ UNCHANGED <<wsize, profile>>

\* The caller's record of the block mm_realloc(l.p, n) returned at q.
Realloced(h, l, n, q) ==
    IF l.p = NULL THEN Block(q, n, n, q, FillBytes(h, q, n))
    ELSE IF q = l.p THEN Block(q, n, l.req, l.src, l.fill)
    ELSE Block(q, n, realloc_request(n), l.src,
               IF Fits(n) THEN Min(l.fill, ToInt(n)) ELSE l.fill)

\* mm_realloc(l.p, n) returned r.
ReallocDone(l, n, r) ==
    /\ Leave(IF Done(r) /\ l.p = NULL
             THEN Store(r.h, r.ret, FillBytes(r.h, r.ret, n)) ELSE r.h, r.st)
    /\ live' = IF n = SZ(0) \/ Done(r)
               THEN {k \in live : k.p # l.p}
                    \cup (IF Done(r) THEN {Realloced(r.h, l, n, r.ret)} ELSE {})
               ELSE live
    /\ last' = Called("realloc", l.p, n, r)

\* r and ralt are what mm_realloc(l.p, n) gives with the one and the other
\* copy: they differ only when its memcpy had overlapping ranges.
ReallocReturn(l, n, r, ralt) ==
    \E x \in (IF r.h.ovl THEN {r, ralt} ELSE {r}) : ReallocDone(l, n, x)

MmRealloc ==
    /\ status = "ready"
    /\ nops < MaxOps
    /\ \E l \in live \cup {NoBlock} : \E n \in profile \cup {SZ(0)} :
          \E avail \in Avails(H, IF l.p = NULL THEN n ELSE realloc_request(n)) :
             ReallocReturn(l, n, mm_realloc(H, l.p, n, avail, FALSE),
                                 mm_realloc(H, l.p, n, avail, TRUE))
    /\ nops' = nops + 1
    /\ UNCHANGED <<wsize, profile>>

Next == MmInit \/ MmMalloc \/ MmFree \/ MmRealloc

Spec == Init /\ [][Next]_vars

(***************************************************************************)
(* Properties.                                                             *)
(***************************************************************************)
\* The last call was mm_malloc and it returned an address.
MallocReturned == status = "ready" /\ last.op = "malloc" /\ last.ret # NULL

\* The size_t n is at most the integer c (c may be negative).
SzAtMost(n, c) == c >= 0 /\ SzLe(n, SZ(c))

\* C1: every non-NULL address returned by mm_malloc is a multiple of DSIZE
\* (the heap base mem_heap is a multiple of 16).
C1_MallocAligned == MallocReturned => last.ret % DSIZE = 0

\* C2: a non-NULL address returned by mm_malloc(size) is that of a block
\* whose payload capacity, the size in its header minus DSIZE, is at least
\* size, for every size from 1 to the largest size_t.
C2_MallocCapacity == MallocReturned => SzAtMost(last.size, Capacity(H, last.ret))

\* The heap with the next state's variables.
HP == [m |-> mem', brk |-> mem_brk', seg_first |-> seg_first',
       heap_listp |-> heap_listp', segv |-> FALSE, ovl |-> FALSE]

HeapWords(h) == (h.brk - mem_heap) \div WSIZE

\* The blocks from the prologue up to the epilogue, in address order, the
\* way checkheap walks them.
RECURSIVE walk(_, _, _)
walk(h, bp, fuel) ==
    IF fuel = 0 \/ ~Valid(h, HDRP(bp)) \/ GET_SIZE(h, HDRP(bp)) <= 0 THEN <<>>
    ELSE <<bp>> \o walk(h, NEXT_BLKP(h, bp), fuel - 1)

Blocks(h) == walk(h, h.heap_listp, HeapWords(h))

IsFree(h, bp) == GET_ALLOC(h, HDRP(bp)) = 0

\* The nodes linked after bp in a free list, up to the sentinel head.
RECURSIVE list_nodes(_, _, _, _)
list_nodes(h, head, bp, seen) ==
    IF bp = head \/ bp \in seen \/ ~Valid(h, next_list(bp)) THEN seen
    ELSE list_nodes(h, head, GET(h, next_list(bp)), seen \cup {bp})

\* The blocks in the free lists.
FreeNodes(h) ==
    UNION { list_nodes(h, seg_head(h, i), GET(h, next_list(seg_head(h, i))), {})
            : i \in 0..(SEGSIZE - 1) }

\* The addresses of the allocator's own words: the sentinel table, every
\* header and footer, the epilogue header, the links of the listed blocks.
MetaWords(h) ==
    {h.seg_first + i * WSIZE : i \in 0..(2 * SEGSIZE - 1)}
    \cup {HDRP(Blocks(h)[i]) : i \in DOMAIN Blocks(h)}
    \cup {FTRP(h, Blocks(h)[i]) : i \in DOMAIN Blocks(h)}
    \cup {h.brk - WSIZE}
    \cup UNION {{next_list(b), prev_list(b)} : b \in FreeNodes(h)}

\* The payload of the block at p holds byte address a.
InPayload(h, p, a) == p <= a /\ a < p + Capacity(h, p)

\* C3: the payloads [p, p + blocksize(p) - DSIZE) of two distinct live blocks
\* are disjoint, and no live payload holds a header, a footer, a free-list
\* link or a word of the sentinel table.
C3_NoOverlap ==
    status = "ready" =>
        /\ \A k, l \in live :
              k # l => \/ k.p + Capacity(H, k.p) <= l.p
                       \/ l.p + Capacity(H, l.p) <= k.p
                       \/ Capacity(H, k.p) <= 0
                       \/ Capacity(H, l.p) <= 0
        /\ \A l \in live : \A a \in MetaWords(H) :
              \A i \in 0..(WSIZE - 1) : ~InPayload(H, l.p, a + i)

\* The low k bytes of words v and w are equal (words are below 2^31).
SameBytes(v, w, k) == IF k >= 4 THEN v = w ELSE v % (256 ^ k) = w % (256 ^ k)

\* The n bytes at address a of heap g equal the n bytes at address b of heap h.
SameData(g, a, h, b, n) ==
    \A i \in 0..((n + WSIZE - 1) \div WSIZE) - 1 :
        SameBytes(GET(g, a + i * WSIZE), GET(h, b + i * WSIZE), Min(WSIZE, n - i * WSIZE))

\* The block l holds what its caller expects: the pattern stored at l.src.
Holds(h, l) ==
    \A i \in 0..((l.fill + WSIZE - 1) \div WSIZE) - 1 :
        SameBytes(GET(h, l.p + i * WSIZE), Pattern(l.src + i * WSIZE),
                  Min(WSIZE, l.fill - i * WSIZE))

\* C4: a call whose argument is another block leaves the bytes the caller
\* stored in a live block as they were.
C4_PayloadPreserved ==
    [][\A l \in live :
          (status' = "ready" /\ l \in live' /\ l.p # last'.ptr /\ Holds(H, l))
              => Holds(HP, l)]_vars

\* C10: after mm_init and after every completed call no two physically
\* adjacent blocks between the prologue and the epilogue are both free.
C10_Coalesced ==
    status = "ready" =>
        \A i \in 1..(Len(Blocks(H)) - 1) :
            ~(IsFree(H, Blocks(H)[i]) /\ IsFree(H, Blocks(H)[i + 1]))

\* The last step was a completed mm_realloc(p, size), p a block and size > 0.
Realloc(p, size) ==
    /\ last'.op = "realloc" /\ last'.ptr = p /\ last'.size = size
    /\ p # NULL /\ size # SZ(0)

\* min(c, size) for the integer c and the size_t size.
MinSz(c, size) == IF SzAtMost(size, c) THEN ToInt(size) ELSE c

\* The block at p is inside a free block that is in a free list.
Freed(h, p) ==
    \E i \in DOMAIN Blocks(h) :
        /\ IsFree(h, Blocks(h)[i])
        /\ Blocks(h)[i] <= p /\ p < Blocks(h)[i] + GET_SIZE(h, HDRP(Blocks(h)[i]))
        /\ Blocks(h)[i] \in FreeNodes(h)

\* C5: when mm_realloc(p, size) returns an address q other than p and NULL,
\* the first min(old capacity of p, size) bytes at q are those that were at
\* p, q is a live allocated block of capacity at least size, and the block
\* at p is free and in a free list.
C5_ReallocMoves ==
    [][\A l \in live : \A n \in profile :
          (Realloc(l.p, n) /\ status' = "ready" /\ last'.ret \notin {NULL, l.p})
              => /\ SameData(HP, last'.ret, H, l.p, MinSz(Capacity(H, l.p), n))
                 /\ GET_ALLOC(HP, HDRP(last'.ret)) = 1
                 /\ SzAtMost(n, Capacity(HP, last'.ret))
                 /\ last'.ret \in {k.p : k \in live'}
                 /\ Freed(HP, l.p)]_vars

\* The allocated blocks of the heap, and what mm_realloc returning its
\* argument must leave alone: the break, the blocks and the free lists.
Allocated(h) == {Blocks(h)[i] : i \in {j \in DOMAIN Blocks(h) : ~IsFree(h, Blocks(h)[j])}}

SameBlocks(g, h) ==
    /\ g.brk = h.brk
    /\ Blocks(g) = Blocks(h)
    /\ Allocated(g) = Allocated(h)
    /\ FreeNodes(g) = FreeNodes(h)

\* mm_realloc returned its argument and allocated, copied and freed nothing.
InPlace(l) ==
    /\ status' = "ready" /\ last'.ret = l.p /\ last'.sbrk = "none"
    /\ SameBlocks(HP, H)
    /\ Holds(H, l) => Holds(HP, l)

\* C6 as stated: mm_realloc(p, size) returns p, without allocating, copying
\* or freeing, whenever the block's size GET_SIZE(HDRP(p)) is greater than
\* or equal to the adjusted size asize of the request.
C6_InPlaceWhenCovered ==
    [][\A l \in live : \A n \in profile :
          (Realloc(l.p, n) /\ SzLe(realloc_asize(n), SZ(GET_SIZE(H, HDRP(l.p)))))
              => InPlace(l)]_vars

\* C6 amended: the same whenever GET_SIZE(HDRP(p)) is strictly greater than
\* asize.
C6_InPlaceWhenLarger ==
    [][\A l \in live : \A n \in profile :
          (Realloc(l.p, n) /\ SzLt(realloc_asize(n), SZ(GET_SIZE(H, HDRP(l.p)))))
              => InPlace(l)]_vars

\* The last call was mm_realloc(p, size), p a block and size > 0, and it
\* returned p, whose block is surplus bytes or more larger than asize.
KeptWithSurplus(surplus) ==
    /\ status = "ready" /\ last.op = "realloc" /\ last.size # SZ(0)
    /\ last.ptr # NULL /\ last.ret = last.ptr
    /\ Fits(realloc_asize(last.size))
    /\ ToInt(realloc_asize(last.size)) + surplus <= GET_SIZE(H, HDRP(last.ptr))

\* C6 witness: mm_realloc has returned its argument, a block larger than asize.
C6_KeptInPlace == KeptWithSurplus(ALIGN_SIZE) /\ ~KeptWithSurplus(2 * DSIZE)

\* C7: mm_realloc(p, size) with asize strictly smaller than the size of the
\* block at p returns p and changes no word of the heap (no header, footer
\* or link) and not the break, however large the surplus.
C7_ShrinkNoOp ==
    [][\A l \in live : \A n \in profile :
          (Realloc(l.p, n) /\ SzLt(realloc_asize(n), SZ(GET_SIZE(H, HDRP(l.p)))))
              => /\ last'.ret = l.p
                 /\ UNCHANGED <<mem, mem_brk, seg_first, heap_listp>>]_vars

\* C7 witness: mm_realloc has returned its argument, a block with a surplus
\* that a split would have turned into a free block.
C7_KeptLargeSurplus == KeptWithSurplus(2 * DSIZE) /\ live # {}

\* C8: a mm_malloc or mm_realloc call in which mem_sbrk refuses returns NULL
\* and leaves the whole allocator state, and the caller's blocks, as they were.
C8_FailureAtomic ==
    [][(last'.op \in {"malloc", "realloc"} /\ last'.sbrk = "refused")
          => /\ status' = "ready" /\ last'.ret = NULL
             /\ UNCHANGED <<mem, mem_brk, seg_first, heap_listp, live>>]_vars

\* C8 witness: mm_realloc of a live block holding its data has returned NULL
\* because mem_sbrk refused.
C8_ReallocRefused ==
    /\ status = "ready" /\ last.op = "realloc" /\ last.sbrk = "refused"
    /\ \E l \in live : l.p = last.ptr /\ l.fill > 0 /\ Holds(H, l)

\* What mm_free(p) followed by mm_malloc(n) gives when mem_sbrk refuses.
Retry(l) == mm_malloc(mm_free(H, l.p), l.n, FALSE)

\* C9: when p is live and was returned by mm_malloc(n), mm_free(p) followed
\* by mm_malloc(n) returns an address without calling mem_sbrk, whatever
\* mem_sbrk would answer.
C9_Recovery ==
    status = "ready" =>
        \A l \in live : l.req = l.n => (Done(Retry(l)) /\ Retry(l).sbrk = "none")

\* Where the walk of a free list from bp ends: at the sentinel head when the
\* list is circular and passes every node once.
RECURSIVE list_end(_, _, _, _)
list_end(h, head, bp, seen) ==
    IF bp = head \/ bp \in seen \/ ~Valid(h, next_list(bp)) THEN bp
    ELSE list_end(h, head, GET(h, next_list(bp)), seen \cup {bp})

\* The nodes of free list i, and whether the list is circular.
ListNodes(h, i) == list_nodes(h, seg_head(h, i), GET(h, next_list(seg_head(h, i))), {})
Circular(h, i) ==
    list_end(h, seg_head(h, i), GET(h, next_list(seg_head(h, i))), {}) = seg_head(h, i)

BlockSet(h) == {Blocks(h)[i] : i \in DOMAIN Blocks(h)}

\* The size class of the block at bp by the size in its header.
ClassOf(h, bp) == seg_index(SZ(GET_SIZE(h, HDRP(bp))))

\* C11: after mm_init and after every completed call, each of the 10 lists is
\* circular, no node is in two lists, every block with a free header is in
\* the list seg_index(header size), and every node of a list is a block with
\* a free header (so no allocated block is reachable from a list).
C11_FreeListMembership ==
    status = "ready" =>
        /\ \A i \in 0..(SEGSIZE - 1) : Circular(H, i)
        /\ \A i, j \in 0..(SEGSIZE - 1) :
              i # j => ListNodes(H, i) \cap ListNodes(H, j) = {}
        /\ \A b \in BlockSet(H) : IsFree(H, b) => b \in ListNodes(H, ClassOf(H, b))
        /\ \A i \in 0..(SEGSIZE - 1) : \A b \in ListNodes(H, i) :
              b \in BlockSet(H) /\ IsFree(H, b)

\* The blocks with a free header, and whether one of them has asize bytes.
FreeBlocks(h) == {b \in BlockSet(h) : IsFree(h, b)}
HasFree(h, asize) == \E b \in FreeBlocks(h) : SzLe(asize, SZ(GET_SIZE(h, HDRP(b))))

\* The address p is inside a free block of the heap.
InFreeBlock(h, p) ==
    \E b \in FreeBlocks(h) : b <= p /\ p < b + GET_SIZE(h, HDRP(b))

\* malloc(100), malloc(200), free(first), malloc(50) on the heap h: the
\* address of the first block and the answer to the last request.
ScenarioB_last(r1, r2, avail) == mm_malloc(mm_free(r2.h, r1.ret), SZ(50), avail)
ScenarioB_from(r1, avail) ==
    [first |-> r1.ret, freed |-> mm_free(mm_malloc(r1.h, SZ(200), TRUE).h, r1.ret),
     r |-> ScenarioB_last(r1, mm_malloc(r1.h, SZ(200), TRUE), avail)]
ScenarioB(h, avail) == ScenarioB_from(mm_malloc(h, SZ(100), TRUE), avail)

\* The instance of C12, on the heap mm_init leaves.
ReusesFirst(b) ==
    /\ b.first # NULL /\ b.r.ret = b.first
    /\ b.r.sbrk = "none" /\ b.r.h.brk = b.freed.brk /\ ~b.r.h.segv

\* C12, every call: a mm_malloc(size) that finds a free block of asize bytes
\* or more anywhere in the heap returns an address inside a block that was
\* free, does not call mem_sbrk and does not move the break.
C12_ServedFromFree ==
    [][\A n \in profile :
          (status = "ready" /\ last'.op = "malloc" /\ last'.size = n
              /\ HasFree(H, malloc_asize(n)))
          => /\ status' = "ready" /\ last'.sbrk = "none" /\ mem_brk' = mem_brk
             /\ last'.ret # NULL /\ InFreeBlock(H, last'.ret)]_vars

\* C12, the instance: malloc(100), malloc(200), free(first), malloc(50) after
\* mm_init returns the first block's address without extending the heap.
C12_ScenarioB ==
    (status = "ready" /\ nops = 0) =>
        \A avail \in BOOLEAN : ReusesFirst(ScenarioB(H, avail))

\* The call of this step was op with argument ptr and size n.
Call(op, ptr, n) == last'.op = op /\ last'.ptr = ptr /\ last'.size = n

\* The heap after the caller has filled the block that r, the answer to a
\* request of n bytes, returned.
Filled(r, n) ==
    IF Done(r) THEN Store(r.h, r.ret, FillBytes(r.h, r.ret, n)) ELSE r.h

\* This step returned what r returns and left what r leaves.
LikeCall(r, n) ==
    last'.ret = r.ret /\ last'.sbrk = r.sbrk /\ Leave(Filled(r, n), r.st)

\* C13: mm_malloc(0) returns NULL and mm_free(NULL) returns, each leaving the
\* allocator state as it was; mm_realloc(p, 0) returns NULL and leaves the
\* state mm_free(p) leaves; mm_realloc(NULL, n), n > 0, returns what
\* mm_malloc(n) returns and leaves the state mm_malloc(n) leaves.
C13_Degenerate ==
    [][/\ (Call("malloc", NULL, SZ(0)) \/ Call("free", NULL, SZ(0)))
            => /\ status' = "ready" /\ last'.ret = NULL /\ last'.sbrk = "none"
               /\ UNCHANGED <<mem, mem_brk, seg_first, heap_listp, live>>
       /\ \A l \in live \cup {NoBlock} :
            Call("realloc", l.p, SZ(0))
                => last'.ret = NULL /\ Leave(mm_free(H, l.p), "ok")
       /\ \A n \in profile :
            Call("realloc", NULL, n)
                => \E avail \in BOOLEAN : LikeCall(mm_malloc(H, n, avail), n)]_vars

\* C13 witness: mm_realloc(p, 0) of a live block has returned NULL, and the
\* block at p is free and in a free list.
C13_ReallocZeroFreed ==
    /\ status = "ready" /\ last.op = "realloc" /\ last.size = SZ(0)
    /\ last.ptr # NULL /\ last.ret = NULL /\ Freed(H, last.ptr)

(***************************************************************************)
(* seg_index on its own: a run draws two sizes (profile) and classifies    *)
(* one after the other; last holds the size and the class returned.        *)
(***************************************************************************)
\* 2^(16 * (NDIG - 1)) + k: a size_t whose low digits alone are small.
SZ_HIGH_PLUS(k) == [i \in 1..NDIG |-> IF i = 1 THEN k ELSE IF i = NDIG THEN 1 ELSE 0]

SegSizes ==
    {SZ(32 * (2 ^ k) + d) : k \in 0..8, d \in (0 - SegSpread)..SegSpread}
    \cup {SZ(0), SZ(1), SZ(16), SZ(17), SZ(12288)}
    \cup {SZ_HIGH_PLUS(0), SZ_HIGH_PLUS(32), SZ_HALF_PLUS(0), SZ_HALF_PLUS(64),
          SZ_MAX_MINUS(0)}

InitSeg ==
    /\ wsize \in {4, 8}
    /\ profile \in {{a, b} : a, b \in SegSizes}
    /\ mem = <<>>
    /\ mem_brk = mem_heap
    /\ seg_first = NULL
    /\ heap_listp = NULL
    /\ live = {}
    /\ last = [op |-> "none", ptr |-> NULL, size |-> SZ(0), ret |-> NULL, sbrk |-> "none"]
    /\ status = "uninit"
    /\ nops = 0

SegIndex ==
    /\ \E n \in profile :
          last' = [op |-> "seg_index", ptr |-> NULL, size |-> n, ret |-> seg_index(n),
                   sbrk |-> "none"]
    /\ UNCHANGED <<wsize, profile, mem, mem_brk, seg_first, heap_listp, live, status, nops>>

NextSeg == SegIndex

SpecSeg == InitSeg /\ [][NextSeg]_vars

\* c is the class the documented limits give the size n: class k for
\* 32 * 2^(k-1) < n <= 32 * 2^k, class 0 for n <= 32, class 9 for n > 8192.
InClass(n, c) ==
    /\ c \in 0..(SEGSIZE - 1)
    /\ c = 0 <=> SzLe(n, SZ(32))
    /\ \A k \in 1..8 : c = k <=> (SzLt(SZ(32 * (2 ^ (k - 1))), n) /\ SzLe(n, SZ(32 * (2 ^ k))))
    /\ c = 9 <=> SzLt(SZ(8192), n)

\* C14: seg_index returns the class of the documented limits, and of two
\* sizes the larger never gets the lower class.
C14_SizeClasses ==
    [][last'.op = "seg_index" =>
          /\ InClass(last'.size, last'.ret)
          /\ (last.op = "seg_index" /\ SzLe(last.size, last'.size))
                => last.ret <= last'.ret
          /\ (last.op = "seg_index" /\ SzLe(last'.size, last.size))
                => last'.ret <= last.ret]_vars

\* C14 witness: the sizes 8192 and 8193, on the two sides of the last limit,
\* have been classified one after the other.
C14_LastLimit ==
    /\ profile = {SZ(8192), SZ(8193)}
    /\ last.op = "seg_index" /\ last.size = SZ(8193) /\ last.ret = 9

\* C15: a mm_malloc(size) call that finds no fit and is given the memory
\* advances the break by exactly max(asize, CHUNKSIZE) bytes.
C15_GrowthAmount ==
    [][\A n \in profile :
          (status = "ready" /\ status' = "ready" /\ Call("malloc", NULL, n)
              /\ last'.sbrk = "ok" /\ Fits(malloc_asize(n)))
          => mem_brk' - mem_brk = ToInt(MAX(malloc_asize(n), SZ(CHUNKSIZE)))]_vars

\* The surplus of the block mm_malloc(size) returned at p over asize.
Surplus(h, p, size) == GET_SIZE(h, HDRP(p)) - ToInt(malloc_asize(size))

\* C16: every block between the prologue and the epilogue has a size that is
\* a multiple of ALIGN_SIZE and at least 2 * DSIZE, and the block mm_malloc
\* returns is asize bytes or more but less than asize + 2 * DSIZE.
C16_MinimumBlock ==
    status = "ready" =>
        /\ \A i \in 2..Len(Blocks(H)) :
              /\ GET_SIZE(H, HDRP(Blocks(H)[i])) % ALIGN_SIZE = 0
              /\ GET_SIZE(H, HDRP(Blocks(H)[i])) >= 2 * DSIZE
        /\ MallocReturned =>
              /\ Fits(malloc_asize(last.size))
              /\ Surplus(H, last.ret, last.size) >= 0
              /\ Surplus(H, last.ret, last.size) < 2 * DSIZE

\* C17: after mm_init and after every completed call, the header word of
\* every block from the prologue up to the epilogue, allocated blocks
\* included, equals its footer word, the word at bp + header size - DSIZE.
C17_TagsAgree ==
    status = "ready" =>
        \A b \in BlockSet(H) : GET(H, HDRP(b)) = GET(H, FTRP(H, b))

\* mm_realloc(p, size) cannot return p: asize is not below the block's size.
MustMove(h, p, size) ==
    ~realloc_in_place(realloc_asize(size), SzSub(SZ(GET_SIZE(h, HDRP(p))), DSIZE))

\* C18: a completed mm_realloc(p, size) that cannot stay in place returns
\* what the one request mm_malloc(SEGSIZE * size) returns, NULL included, and
\* a block it returns has a payload capacity of at least 10 * size.
C18_TenfoldRequest ==
    [][\A l \in live : \A n \in profile :
          (Realloc(l.p, n) /\ status' = "ready" /\ MustMove(H, l.p, n))
          => /\ \E avail \in BOOLEAN :
                   /\ last'.ret = mm_malloc(H, realloc_request(n), avail).ret
                   /\ last'.sbrk = mm_malloc(H, realloc_request(n), avail).sbrk
             /\ last'.ret # NULL
                   => SzAtMost(n, Capacity(HP, last'.ret) \div SEGSIZE)]_vars

(***************************************************************************)
(* The heap consistency checker: checkblock, printblock, checkheap.  The   *)
(* checker only reads; what is modelled is how each of its loops ends:     *)
(* "ok" (it goes on), "segv" (a read that faults) or "hang" (the loop is   *)
(* back in a state it has been in, with nothing changed: it never ends).   *)
(* A read at or past the break is outside what mem_sbrk has handed out:    *)
(* it faults or yields what the memory there holds, as faults chooses.     *)
(***************************************************************************)
Mapped(h, p, faults) ==
    \/ Valid(h, p)
    \/ (~faults /\ p % WSIZE = 0 /\ p >= h.brk /\ p < mem_heap + MaxHeap)

Read(h, p) == h.m[p \div WSIZE]

\* GET_SIZE(p) of a word the checker may read.
SizeAt(h, p) == Read(h, p) - (Read(h, p) % ALIGN_SIZE)

\* st, and when it is "ok" what follows.
Then(st, rest) == IF st # "ok" THEN st ELSE rest

\* Reading GET(HDRP(bp)) and GET(FTRP(bp)).
read_tags(h, bp, faults) ==
    IF ~Mapped(h, HDRP(bp), faults) THEN "segv"
    ELSE IF ~Mapped(h, bp + SizeAt(h, HDRP(bp)) - DSIZE, faults) THEN "segv"
    ELSE "ok"

\* checkblock's two loops: i = seg_first; while (i != NULL) { if (i == bp)
\* return; i = i->next_list; }
RECURSIVE check_list(_, _, _, _, _)
check_list(h, i, bp, seen, faults) ==
    IF i = NULL \/ i = bp THEN "ok"
    ELSE IF ~Mapped(h, next_list(i), faults) THEN "segv"
    ELSE IF i \in seen THEN "hang"
    ELSE check_list(h, Read(h, next_list(i)), bp, seen \cup {i}, faults)

checkblock(h, bp, faults) ==
    Then(read_tags(h, bp, faults), check_list(h, h.seg_first, bp, {}, faults))

\* checkheap's scan for adjacent free blocks: while (start != next) {
\* if (GET_ALLOC(current) && !GET_ALLOC(next)) ...; current = next;
\* next = NEXT_BLKP(next); }
RECURSIVE check_scan(_, _, _, _, _, _)
check_scan(h, start, current, next, seen, faults) ==
    IF start = next THEN "ok"
    ELSE IF ~Mapped(h, current, faults) THEN "segv"
    ELSE IF Read(h, current) % 2 = 1 /\ ~Mapped(h, next, faults) THEN "segv"
    ELSE IF ~Mapped(h, HDRP(next), faults) THEN "segv"
    ELSE IF <<current, next>> \in seen THEN "hang"
    ELSE check_scan(h, start, next, next + SizeAt(h, HDRP(next)),
                    seen \cup {<<current, next>>}, faults)

\* checkheap's walk: for (bp = heap_listp; GET_SIZE(HDRP(bp)) > 0;
\* bp = NEXT_BLKP(bp)) checkblock(bp), after pst, the printblock(bp) of a
\* verbose run.
RECURSIVE check_blocks(_, _, _, _, _)
check_blocks(h, bp, pst, seen, faults) ==
    IF ~Mapped(h, HDRP(bp), faults) THEN "segv"
    ELSE IF SizeAt(h, HDRP(bp)) <= 0 THEN "ok"
    ELSE IF bp \in seen THEN "hang"
    ELSE Then(pst,
         Then(read_tags(h, bp, faults),
         Then(checkblock(h, bp, faults),
              check_blocks(h, bp + SizeAt(h, HDRP(bp)), pst, seen \cup {bp},
                           faults))))

\* checkheap(false).  bp0 is the value of the local bp, which is read before
\* it is assigned.
checkheap_quiet(h, bp0, faults) ==
    Then(read_tags(h, bp0, faults),
    Then(IF ~Mapped(h, HDRP(h.heap_listp), faults) THEN "segv"
         ELSE check_scan(h, h.heap_listp, h.heap_listp,
                         NEXT_BLKP(h, h.heap_listp), {}, faults),
    Then(checkblock(h, h.heap_listp, faults),
         check_blocks(h, h.heap_listp, "ok", {}, faults))))

\* printblock(bp): checkheap(false), whose own bp holds bp1, then the tags.
printblock(h, bp, bp1, faults) ==
    Then(checkheap_quiet(h, bp1, faults), read_tags(h, bp, faults))

\* checkheap(verbose).
checkheap(h, bp0, bp1, verbose, faults) ==
    IF ~verbose THEN checkheap_quiet(h, bp0, faults)
    ELSE Then(read_tags(h, bp0, faults),
         Then(IF ~Mapped(h, HDRP(h.heap_listp), faults) THEN "segv"
              ELSE check_scan(h, h.heap_listp, h.heap_listp,
                              NEXT_BLKP(h, h.heap_listp), {}, faults),
         Then(checkblock(h, h.heap_listp, faults),
         Then(printblock(h, bp0, bp1, faults),
              check_blocks(h, h.heap_listp, checkheap_quiet(h, bp1, faults), {},
                           faults)))))

\* The values the unassigned local bp may hold.
Indeterminate(h) == {NULL, h.heap_listp, h.brk}

Checkheap ==
    /\ status = "ready"
    /\ \E verbose \in BOOLEAN : \E faults \in BOOLEAN :
          \E bp0 \in Indeterminate(H) : \E bp1 \in Indeterminate(H) :
             status' = CASE checkheap(H, bp0, bp1, verbose, faults) = "ok" -> "ready"
                         [] checkheap(H, bp0, bp1, verbose, faults) = "segv" -> "crashed"
                         [] OTHER -> "hung"
    /\ last' = [op |-> "checkheap", ptr |-> NULL, size |-> SZ(0), ret |-> NULL,
                sbrk |-> "none"]
    /\ UNCHANGED <<wsize, profile, mem, mem_brk, seg_first, heap_listp, live, nops>>

NextCheck == Next \/ Checkheap

SpecCheck == Init /\ [][NextCheck]_vars

\* C19: every call of checkheap on a heap reached by mm_init and the
\* allocator's calls returns.
C19_CheckerReturns == last.op = "checkheap" => status = "ready"

\* The sum of the header sizes of the blocks bs[i..].
RECURSIVE SumSizes(_, _, _)
SumSizes(h, bs, i) ==
    IF i > Len(bs) THEN 0 ELSE GET_SIZE(h, HDRP(bs[i])) + SumSizes(h, bs, i + 1)

\* Where the walk from the prologue by header sizes stops.
WalkEnd(h) ==
    IF Blocks(h) = <<>> THEN h.heap_listp
    ELSE NEXT_BLKP(h, Blocks(h)[Len(Blocks(h))])

\* The bytes mem_sbrk has handed out after the sentinel table.
HeapBytes(h) == h.brk - (h.seg_first + 2 * SEGSIZE * WSIZE)

Tiled(h) ==
    /\ GET(h, HDRP(h.heap_listp)) = PACK(DSIZE, 1)
    /\ WalkEnd(h) = h.brk
    /\ GET(h, h.brk - WSIZE) = PACK(0, 1)
    /\ SumSizes(h, Blocks(h), 1) + 2 * WSIZE = HeapBytes(h)

\* C20: after mm_init and after every completed call the prologue is an
\* allocated block of DSIZE bytes at heap_listp, the walk from it by header
\* sizes ends on the epilogue header PACK(0, 1) in the last word below the
\* break, the sizes walked plus the padding and epilogue words are all the
\* bytes obtained after the sentinel table, and no step lowers the break.
C20_HeapTiled ==
    [][/\ status' = "ready" => Tiled(HP)
       /\ mem_brk' >= mem_brk]_vars

====
